---- MODULE Spec2Model ----
(***************************************************************************)
(* One call of AiFunctions::AiGenerateTextInternal                        *)
(* (be/src/exprs/ai-functions-ir.cc), as a state machine: the call's       *)
(* arguments, its locals (endpoint_str, headers, payload, overrides,       *)
(* payload_str, resp, document, response), the position in the function    *)
(* body, and the value it returns.                                         *)
(*                                                                         *)
(* Strings are TLA+ strings; the character NUL stands for the byte 0x00    *)
(* (what the JSON escape \u0000 parses to).  A JSON text is a sequence of  *)
(* tokens; a JSON value is a record [t, s, n, a].                          *)
(***************************************************************************)
EXTENDS Integers, Sequences, FiniteSets, TLC

\* The largest number of members of an overrides object the model enumerates.
MaxMembers == 2

\* ------------------------------------------------------------------ strings

NUL == "$"

Upper == "ABCDEFGHIJKLMNOPQRSTUVWXYZ"

Lower == "abcdefghijklmnopqrstuvwxyz"

Min(a, b) == IF a < b THEN a ELSE b

Ch(s, i) == SubSeq(s, i, i)

\* tolower() of one character.
ToLowerCh(c) ==
  IF \E i \in 1..Len(Upper) : Ch(Upper, i) = c
    THEN Ch(Lower, CHOOSE i \in 1..Len(Upper) : Ch(Upper, i) = c)
    ELSE c

\* strlen(): the number of characters before the first NUL.
StrLen(s) ==
  IF \E i \in 1..Len(s) : Ch(s, i) = NUL
    THEN (CHOOSE i \in 1..Len(s) :
            /\ Ch(s, i) = NUL
            /\ \A j \in 1..(i - 1) : Ch(s, j) # NUL) - 1
    ELSE Len(s)

\* What a const char* reader sees of a string: c_str() / GetString() read
\* as a NUL-terminated string.
CStr(s) == SubSeq(s, 1, StrLen(s))

\* strncasecmp(a, b, n) == 0 on NUL-terminated strings.
StrNCaseEq(a, b, n) ==
  LET ca == CStr(a)
      cb == CStr(b)
      la == Min(n, Len(ca))
      lb == Min(n, Len(cb))
  IN  /\ la = lb
      /\ \A i \in 1..la : ToLowerCh(Ch(ca, i)) = ToLowerCh(Ch(cb, i))

\* gutil strncaseprefix(haystack, haystack_size, needle, needle_size) != nullptr
strncaseprefix(haystack, haystack_size, needle, needle_size) ==
  IF needle_size > haystack_size
    THEN FALSE
    ELSE StrNCaseEq(haystack, needle, needle_size)

\* gutil gstrcasestr(haystack, needle) != nullptr: a case-insensitive
\* substring search over NUL-terminated strings.
gstrcasestr(haystack, needle) ==
  LET h == CStr(haystack)
      n == CStr(needle)
  IN  \E i \in 1..(Len(h) - Len(n) + 1) :
        \A j \in 1..Len(n) : ToLowerCh(Ch(h, i + j - 1)) = ToLowerCh(Ch(n, j))

\* ---------------------------------------------------------------- constants

AI_GENERATE_TXT_JSON_PARSE_ERROR == "Invalid Json"

AI_GENERATE_TXT_INVALID_PROTOCOL_ERROR == "Invalid Protocol, use https"

AI_GENERATE_TXT_UNSUPPORTED_ENDPOINT_ERROR == "Unsupported Endpoint"

AI_GENERATE_TXT_INVALID_PROMPT_ERROR == "Invalid Prompt, cannot be null or empty"

AI_GENERATE_TXT_MSG_OVERRIDE_FORBIDDEN_ERROR ==
  "Invalid override, 'messages' cannot be overriden"

AI_API_ENDPOINT_PREFIX == "https://"

OPEN_AI_AZURE_ENDPOINT == "openai.azure.com"

OPEN_AI_PUBLIC_ENDPOINT == "api.openai.com"

OPEN_AI_RESPONSE_FIELD_CHOICES == "choices"

OPEN_AI_RESPONSE_FIELD_MESSAGE == "message"

OPEN_AI_RESPONSE_FIELD_CONTENT == "content"

OPEN_AI_REQUEST_FIELD_CONTENT_TYPE_HEADER == "Content-Type: application/json"

\* sizeof(AI_API_ENDPOINT_PREFIX): the operand is a const char*, so this is
\* the size of a pointer of the (64-bit) build, not the length of the prefix.
SizeofPrefixPointer == 8

\* The configured --ai_endpoint and --ai_model of the process.
FLAGS_ai_endpoint == "https://api.openai.com/v1"

FLAGS_ai_model == "gpt-4"

\* ------------------------------------------------------- endpoint validation

\* is_api_endpoint_valid with the size of a 4-byte pointer: only "http" of
\* the prefix is compared.
is_api_endpoint_valid_sizeof4(endpoint) ==
  strncaseprefix(endpoint, Len(endpoint), AI_API_ENDPOINT_PREFIX, SizeofPrefixPointer - 4)

is_api_endpoint_valid(endpoint) ==
  strncaseprefix(endpoint, Len(endpoint), AI_API_ENDPOINT_PREFIX, SizeofPrefixPointer)

is_api_endpoint_supported(endpoint) ==
  \/ gstrcasestr(endpoint, OPEN_AI_AZURE_ENDPOINT)
  \/ gstrcasestr(endpoint, OPEN_AI_PUBLIC_ENDPOINT)

\* ----------------------------------------------------------------- JSON

\* rapidjson values.  a holds the elements of an array and the members
\* [name, value] of an object, in document order.
JNull == [t |-> "null", s |-> "", n |-> 0, a |-> <<>>]

JNum(n) == [t |-> "num", s |-> "", n |-> n, a |-> <<>>]

JStr(s) == [t |-> "str", s |-> s, n |-> 0, a |-> <<>>]

JArr(a) == [t |-> "arr", s |-> "", n |-> 0, a |-> a]

JObj(a) == [t |-> "obj", s |-> "", n |-> 0, a |-> a]

Member(name, value) == [name |-> name, value |-> value]

IsObject(v) == v.t = "obj"

IsArray(v) == v.t = "arr"

IsString(v) == v.t = "str"

\* The tokens of a JSON text.
Tok(k) == [k |-> k, s |-> "", n |-> 0]

TStr(s) == [k |-> "str", s |-> s, n |-> 0]

TNum(n) == [k |-> "num", s |-> "", n |-> n]

RECURSIVE Stringify(_)
RECURSIVE WriteElements(_, _)
RECURSIVE WriteMembers(_, _)

WriteElements(a, i) ==
  IF i > Len(a) THEN <<>>
  ELSE (IF i > 1 THEN <<Tok(",")>> ELSE <<>>)
         \o Stringify(a[i]) \o WriteElements(a, i + 1)

WriteMembers(a, i) ==
  IF i > Len(a) THEN <<>>
  ELSE (IF i > 1 THEN <<Tok(",")>> ELSE <<>>)
         \o <<TStr(a[i].name), Tok(":")>> \o Stringify(a[i].value)
         \o WriteMembers(a, i + 1)

\* Value::Accept(Writer): the text of a value.
Stringify(v) ==
  CASE v.t = "null" -> <<Tok("null")>>
    [] v.t = "num" -> <<TNum(v.n)>>
    [] v.t = "str" -> <<TStr(v.s)>>
    [] v.t = "arr" -> <<Tok("[")>> \o WriteElements(v.a, 1) \o <<Tok("]")>>
    [] v.t = "obj" -> <<Tok("{")>> \o WriteMembers(v.a, 1) \o <<Tok("}")>>

ParseFail == [ok |-> FALSE, v |-> JNull, i |-> 0]

ParseOk(v, i) == [ok |-> TRUE, v |-> v, i |-> i]

RECURSIVE ParseValue(_, _)
RECURSIVE ParseElements(_, _, _)
RECURSIVE ParseMembers(_, _, _)

\* The elements of an array after "[" or ",": a value, then "," or "]".
ParseElements(toks, i, acc) ==
  LET r == ParseValue(toks, i)
  IN  IF ~r.ok \/ r.i > Len(toks) THEN ParseFail
      ELSE IF toks[r.i].k = "]" THEN ParseOk(JArr(Append(acc, r.v)), r.i + 1)
      ELSE IF toks[r.i].k = "," THEN ParseElements(toks, r.i + 1, Append(acc, r.v))
      ELSE ParseFail

\* The members of an object after "{" or ",": a string, ":", a value, then
\* "," or "}".
ParseMembers(toks, i, acc) ==
  IF i + 1 > Len(toks) \/ toks[i].k # "str" \/ toks[i + 1].k # ":" THEN ParseFail
  ELSE LET r == ParseValue(toks, i + 2)
           m == Member(toks[i].s, r.v)
       IN  IF ~r.ok \/ r.i > Len(toks) THEN ParseFail
           ELSE IF toks[r.i].k = "}" THEN ParseOk(JObj(Append(acc, m)), r.i + 1)
           ELSE IF toks[r.i].k = "," THEN ParseMembers(toks, r.i + 1, Append(acc, m))
           ELSE ParseFail

ParseValue(toks, i) ==
  IF i > Len(toks) THEN ParseFail
  ELSE CASE toks[i].k = "null" -> ParseOk(JNull, i + 1)
         [] toks[i].k = "num" -> ParseOk(JNum(toks[i].n), i + 1)
         [] toks[i].k = "str" -> ParseOk(JStr(toks[i].s), i + 1)
         [] toks[i].k = "[" ->
              IF i + 1 <= Len(toks) /\ toks[i + 1].k = "]"
                THEN ParseOk(JArr(<<>>), i + 2)
                ELSE ParseElements(toks, i + 1, <<>>)
         [] toks[i].k = "{" ->
              IF i + 1 <= Len(toks) /\ toks[i + 1].k = "}"
                THEN ParseOk(JObj(<<>>), i + 2)
                ELSE ParseMembers(toks, i + 1, <<>>)
         [] OTHER -> ParseFail

\* Document::Parse: [err |-> HasParseError(), v |-> the root value].  The
\* text must be exactly one value.
Parse(toks) ==
  LET r == ParseValue(toks, 1)
  IN  IF r.ok /\ r.i = Len(toks) + 1
        THEN [err |-> FALSE, v |-> r.v]
        ELSE [err |-> TRUE, v |-> JNull]

\* Value::FindMember(const Ch* name): the index of the first member whose
\* name equals the NUL-terminated string name points to, 0 if there is none.
\* The lookup key is built with StringRef(name), i.e. with strlen(name).
FindMember(members, name) ==
  LET key == CStr(name)
      hits == {i \in 1..Len(members) : members[i].name = key}
  IN  IF hits = {} THEN 0 ELSE CHOOSE i \in hits : \A j \in hits : i <= j

HasMember(members, name) == FindMember(members, name) # 0

\* Value::operator==(const Ch*): string equality by length and bytes.
NameEquals(name, literal) == name = CStr(literal)

\* --------------------------------------------------------------- StringVal

\* impala_udf::StringVal: ptr is "ptr != nullptr", s the len bytes at ptr.
NULL_STRINGVAL == [ptr |-> FALSE, s |-> ""]

StringValOf(s) == [ptr |-> TRUE, s |-> s]

\* The argument test of the function: ptr != nullptr && len != 0.
Supplied(sv) == sv.ptr /\ Len(sv.s) # 0

\* What the function returns.  kind: "none" while the call runs, "string"
\* for a StringVal with text s, "null" for StringVal::null(), "fault" when
\* the call does not return (assertion failure, crash).
NoResult == [kind |-> "none", s |-> ""]

StringResult(s) == [kind |-> "string", s |-> s]

NullResult == [kind |-> "null", s |-> ""]

Fault == [kind |-> "fault", s |-> ""]

\* StringVal::CopyFrom(ctx, buf, len): a StringVal holding a copy of buf.
CopyFrom(s) == StringResult(s)

\* ------------------------------------------------------------------ inputs

Endpoints ==
  { NULL_STRINGVAL,
    StringValOf("HTTPS://Tenant.OpenAI.Azure.com/"),
    StringValOf("https://api.openai.com/v1"),
    StringValOf("http://api.openai.com/v1"),
    StringValOf("https://example.com/api") }

Prompts == { NULL_STRINGVAL, StringValOf(""), StringValOf("hello") }

Models == { NULL_STRINGVAL, StringValOf("gpt-3.5-turbo") }

SecretRefs == { NULL_STRINGVAL, StringValOf("open-ai-key") }

\* The answers of Frontend::GetSecretFromKeyStore.
SecretResults ==
  { [status |-> [ok |-> TRUE, msg |-> ""], api_key |-> "sk-from-keystore"],
    [status |-> [ok |-> FALSE, msg |-> "Secret not found: open-ai-key"],
     api_key |-> ""] }

\* The members of the overrides objects: names with and without an embedded
\* NUL (the JSON escape \u0000), values held inline (a number, a short
\* string, an empty array) and in the allocator (an array with an element).
OverrideMembers ==
  { Member("temperature", JNum(5)),
    Member("temperature", JArr(<<JNum(1)>>)),
    Member("temperature" \o NUL \o "x", JNum(5)),
    Member("temperature" \o NUL \o "x", JArr(<<JNum(1)>>)),
    Member("model", JStr("gpt-4o")),
    Member("messages", JArr(<<>>)),
    Member("messages" \o NUL \o "x", JNum(5)) }

OverrideObjects ==
  { JObj(ms) : ms \in UNION { [1..k -> OverrideMembers] : k \in 0..MaxMembers } }

NonObjectRoots == { JArr(<<>>), JNum(5), JStr("x"), JNull }

\* Texts that are not JSON: an object with a trailing comma, an open brace.
MalformedTexts ==
  { <<Tok("{"), TStr("temperature"), Tok(":"), TNum(5), Tok(","), Tok("}")>>,
    <<Tok("{")>> }

ParamsTexts ==
  { Stringify(v) : v \in OverrideObjects \cup NonObjectRoots } \cup MalformedTexts

Params ==
  { [ptr |-> FALSE, s |-> <<>>], [ptr |-> TRUE, s |-> <<>>] }
    \cup { [ptr |-> TRUE, s |-> t] : t \in ParamsTexts }

Choices(first) == JObj(<<Member("choices", JArr(first))>>)

MessageOf(v) == JObj(<<Member("message", v)>>)

ContentOf(v) == JObj(<<Member("content", v)>>)

ResponseValues ==
  { Choices(<<MessageOf(ContentOf(JStr("hi there")))>>),
    Choices(<<MessageOf(ContentOf(JStr("hi" \o NUL \o "there")))>>),
    Choices(<<MessageOf(ContentOf(JStr("")))>>),
    Choices(<<MessageOf(ContentOf(JNum(5)))>>),
    Choices(<<MessageOf(JObj(<<>>))>>),
    Choices(<<MessageOf(JNum(5))>>),
    Choices(<<JObj(<<>>)>>),
    Choices(<<JNum(5)>>),
    Choices(<<>>),
    JObj(<<Member("choices", JNum(5))>>),
    JObj(<<>>),
    JArr(<<>>) }

ResponseTexts == { Stringify(v) : v \in ResponseValues } \cup { <<Tok("{")>> }

\* The answers of kudu::EasyCurl::PostToURL: a status and the body.
TransportResults ==
  { [status |-> [ok |-> TRUE, msg |-> ""], resp |-> t] : t \in ResponseTexts }
    \cup { [status |-> [ok |-> FALSE, msg |-> "Remote error: HTTP 500"],
            resp |-> <<>>] }

\* ------------------------------------------------------------ the function

VARIABLES
  pc,                    \* the position in AiGenerateTextInternal
  endpoint, prompt, model, api_key_jceks_secret, params, dry_run,
  ai_api_key_,           \* the process-wide default credential
  endpoint_str, headers,
  api_key,               \* the key the secret store returned
  secret_status,         \* the Status of GetSecretFromKeyStore
  payload,               \* the members of the payload document
  overrides,             \* the parsed overrides document
  overrides_live,        \* overrides (and its allocator) not yet destroyed
  it,                    \* the position of the range-for over the overrides
  payload_str,
  status,                \* the Status of PostToURL
  resp, document, response,
  result,                \* the value returned
  secret_calls, posts, parses   \* calls made of the store, POST, response Parse

vars ==
  << pc, endpoint, prompt, model, api_key_jceks_secret, params, dry_run,
     ai_api_key_, endpoint_str, headers, api_key, secret_status, payload,
     overrides, overrides_live, it, payload_str, status, resp, document,
     response, result, secret_calls, posts, parses >>

args == << endpoint, prompt, model, api_key_jceks_secret, params, dry_run, ai_api_key_ >>

secret == << api_key, secret_status >>

NoDocument == [err |-> FALSE, v |-> JNull]

StatusOK == [ok |-> TRUE, msg |-> ""]

\* The state at the entry of AiGenerateTextInternal, for every combination of
\* arguments.  The public entry points are calls with dry_run false, the
\* one-argument ones with every argument but the prompt null.
Init ==
  /\ pc = "endpoint"
  /\ endpoint \in Endpoints
  /\ prompt \in Prompts
  /\ model \in Models
  /\ api_key_jceks_secret \in SecretRefs
  /\ params \in Params
  /\ dry_run \in BOOLEAN
  /\ ai_api_key_ = "sk-default"
  /\ endpoint_str = FLAGS_ai_endpoint
  /\ headers = <<>>
  /\ api_key = ""
  /\ secret_status = StatusOK
  /\ payload = <<>>
  /\ overrides = NoDocument
  /\ overrides_live = FALSE
  /\ it = 0
  /\ payload_str = <<>>
  /\ status = StatusOK
  /\ resp = <<>>
  /\ document = NoDocument
  /\ response = ""
  /\ result = NoResult
  /\ secret_calls = 0
  /\ posts = 0
  /\ parses = 0

\* return r;
Return(r) == pc' = "done" /\ result' = r

\* The endpoint checks of an explicitly supplied endpoint: the error string
\* returned, "" when the function goes on.
EndpointError(ep) ==
  IF Supplied(ep)
    THEN IF ~is_api_endpoint_valid(ep.s)
           THEN AI_GENERATE_TXT_INVALID_PROTOCOL_ERROR
         ELSE IF ~is_api_endpoint_supported(ep.s)
           THEN AI_GENERATE_TXT_UNSUPPORTED_ENDPOINT_ERROR
         ELSE ""
    ELSE ""

ValidateEndpoint ==
  /\ pc = "endpoint"
  /\ endpoint_str' = IF Supplied(endpoint) THEN endpoint.s ELSE FLAGS_ai_endpoint
  /\ IF EndpointError(endpoint) # ""
       THEN Return(StringResult(EndpointError(endpoint)))
       ELSE pc' = "headers" /\ UNCHANGED result
  /\ UNCHANGED << args, secret, status, headers, payload, overrides, overrides_live, it,
                  payload_str, resp, document, response,
                  secret_calls, posts, parses >>

\* AuthorizationHeader that ignores the key of the store.
AuthorizationHeader_default_only(ref, key, default_key) ==
  "Authorization: Bearer " \o default_key

\* The Authorization header: built from the key the store returned when a
\* secret reference was supplied, from ai_api_key_ otherwise.
AuthorizationHeader(ref, key, default_key) ==
  IF Supplied(ref)
    THEN "Authorization: Bearer " \o key
    ELSE "Authorization: Bearer " \o default_key

BuildHeaders ==
  /\ pc = "headers"
  /\ IF Supplied(api_key_jceks_secret)
       THEN /\ secret_calls' = secret_calls + 1
            /\ \E r \in SecretResults :
                 /\ secret_status' = r.status
                 /\ api_key' = r.api_key
                 /\ IF ~r.status.ok
                      THEN /\ Return(CopyFrom(r.status.msg))
                           /\ headers' = <<OPEN_AI_REQUEST_FIELD_CONTENT_TYPE_HEADER>>
                      ELSE /\ headers' =
                                << OPEN_AI_REQUEST_FIELD_CONTENT_TYPE_HEADER,
                                   AuthorizationHeader(api_key_jceks_secret,
                                                       r.api_key, ai_api_key_) >>
                           /\ pc' = "payload"
                           /\ UNCHANGED result
       ELSE /\ headers' =
                 << OPEN_AI_REQUEST_FIELD_CONTENT_TYPE_HEADER,
                    AuthorizationHeader(api_key_jceks_secret, "", ai_api_key_) >>
            /\ pc' = "payload"
            /\ UNCHANGED << result, secret_calls, api_key, secret_status >>
  /\ UNCHANGED << args, endpoint_str, payload, overrides, overrides_live, it,
                  payload_str, status, resp, document, response, posts, parses >>

\* A member of the payload and the storage behind its name and its value:
\* "static" (a literal), "caller" (a StringRef into an argument or a flag),
\* "payload" (payload_allocator), "inline" (held in the Value itself),
\* "overrides" (the memory pool of the overrides document).
PMember(name, value, name_owner, value_owner) ==
  [name |-> name, value |-> value, name_owner |-> name_owner,
   value_owner |-> value_owner]

\* Whether a parsed value keeps its data in the allocator of the document
\* that parsed it: strings longer than the 13 characters of rapidjson's
\* short-string form, and arrays and objects that are not empty.
Pooled(v) ==
  \/ v.t = "str" /\ Len(v.s) > 13
  \/ v.t \in {"arr", "obj"} /\ Len(v.a) > 0

ParsedOwner(v) == IF Pooled(v) THEN "overrides" ELSE "inline"

ModelMember(m) ==
  PMember("model", JStr(IF Supplied(m) THEN m.s ELSE FLAGS_ai_model),
          "static", "caller")

MessagesMember(p) ==
  PMember("messages",
          JArr(<< JObj(<< Member("role", JStr("user")),
                          Member("content", JStr(p.s)) >>) >>),
          "static", "payload")

\* InvalidPrompt without the length test.
InvalidPrompt_null_only(p) == ~p.ptr

\* The prompt test: prompt.ptr == nullptr || prompt.len == 0.
InvalidPrompt(p) == ~p.ptr \/ Len(p.s) = 0

BuildPayload ==
  /\ pc = "payload"
  /\ IF InvalidPrompt(prompt)
       THEN /\ payload' = <<ModelMember(model)>>
            /\ Return(StringResult(AI_GENERATE_TXT_INVALID_PROMPT_ERROR))
       ELSE /\ payload' = <<ModelMember(model), MessagesMember(prompt)>>
            /\ pc' = "overrides"
            /\ UNCHANGED result
  /\ UNCHANGED << args, secret, status, endpoint_str, headers, overrides, overrides_live, it,
                  payload_str, resp, document, response,
                  secret_calls, posts, parses >>

\* MergeStep that tests the name against "message".
MergeStep_wrong_literal(pl, m) ==
  IF HasMember(pl, m.name)
    THEN IF NameEquals(m.name, "message")
           THEN [forbidden |-> TRUE, payload |-> pl]
           ELSE [forbidden |-> FALSE,
                 payload |->
                   [pl EXCEPT ![FindMember(pl, m.name)].value = m.value,
                              ![FindMember(pl, m.name)].value_owner =
                                 ParsedOwner(m.value)]]
    ELSE [forbidden |-> FALSE,
          payload |-> Append(pl, PMember(m.name, m.value,
                                         ParsedOwner(JStr(m.name)),
                                         ParsedOwner(m.value)))]

\* One turn of the loop over the members of the overrides: the payload after
\* it, or forbidden when the turn returns the override-forbidden error.
\* HasMember and operator[] take m.name.GetString(), a const char*.
MergeStep(pl, m) ==
  IF HasMember(pl, m.name)
    THEN IF NameEquals(m.name, "messages")
           THEN [forbidden |-> TRUE, payload |-> pl]
           ELSE [forbidden |-> FALSE,
                 payload |->
                   [pl EXCEPT ![FindMember(pl, m.name)].value = m.value,
                              ![FindMember(pl, m.name)].value_owner =
                                 ParsedOwner(m.value)]]
    ELSE [forbidden |-> FALSE,
          payload |-> Append(pl, PMember(m.name, m.value,
                                         ParsedOwner(JStr(m.name)),
                                         ParsedOwner(m.value)))]

ParseOverrides ==
  /\ pc = "overrides"
  /\ IF ~Supplied(params)
       THEN /\ pc' = "stringify"
            /\ UNCHANGED << overrides, overrides_live, it, result >>
       ELSE /\ overrides' = Parse(params.s)
            /\ IF overrides'.err
                 THEN /\ Return(StringResult(AI_GENERATE_TXT_JSON_PARSE_ERROR))
                      /\ overrides_live' = FALSE
                      /\ UNCHANGED it
                 ELSE /\ pc' = "merge"
                      /\ overrides_live' = TRUE
                      /\ it' = 1
                      /\ UNCHANGED result
  /\ UNCHANGED << args, secret, status, endpoint_str, headers, payload, payload_str, resp,
                  document, response, secret_calls, posts, parses >>

\* overrides.GetObject() of a document whose root is not an object: rapidjson
\* asserts IsObject().  With assertions on the call aborts; with them
\* compiled out the root is read as an object, here one without members.
MergeNonObject ==
  /\ pc = "merge"
  /\ ~IsObject(overrides.v)
  /\ \E outcome \in {"assert", "no members"} :
       IF outcome = "assert"
         THEN Return(Fault)
         ELSE pc' = "stringify" /\ UNCHANGED result
  /\ overrides_live' = FALSE
  /\ UNCHANGED << args, secret, status, endpoint_str, headers, payload, overrides, it,
                  payload_str, resp, document, response,
                  secret_calls, posts, parses >>

MergeMember ==
  /\ pc = "merge"
  /\ IsObject(overrides.v)
  /\ it <= Len(overrides.v.a)
  /\ LET r == MergeStep(payload, overrides.v.a[it])
     IN  IF r.forbidden
           THEN /\ Return(StringResult(AI_GENERATE_TXT_MSG_OVERRIDE_FORBIDDEN_ERROR))
                /\ overrides_live' = FALSE
                /\ UNCHANGED << payload, it >>
           ELSE /\ payload' = r.payload
                /\ it' = it + 1
                /\ UNCHANGED << pc, result, overrides_live >>
  /\ UNCHANGED << args, secret, status, endpoint_str, headers, overrides, payload_str, resp,
                  document, response, secret_calls, posts, parses >>

\* The end of the if block: the loop is over and overrides is destroyed,
\* its allocator with it.
EndOverrides ==
  /\ pc = "merge"
  /\ IsObject(overrides.v)
  /\ it > Len(overrides.v.a)
  /\ overrides_live' = FALSE
  /\ pc' = "stringify"
  /\ UNCHANGED << args, secret, status, endpoint_str, headers, payload, overrides, it,
                  payload_str, resp, document, response, result,
                  secret_calls, posts, parses >>

\* The members of the payload whose name or value lies in the memory pool of
\* the overrides document.
FromOverrides(pl) ==
  { i \in 1..Len(pl) :
      pl[i].name_owner = "overrides" \/ pl[i].value_owner = "overrides" }

\* A member of the payload is read from storage that was freed.
Dangling(pl, live) == FromOverrides(pl) # {} /\ ~live

\* stringify_json(payload, buffer): the text of the payload.  Reading freed
\* storage yields the old bytes, other bytes, or a crash.
Serialize ==
  /\ pc = "stringify"
  /\ IF Dangling(payload, overrides_live)
       THEN \E outcome \in {"stale", "garbage", "crash"} :
              CASE outcome = "stale" ->
                     /\ payload_str' = Stringify(JObj(payload))
                     /\ pc' = "request"
                     /\ UNCHANGED result
                [] outcome = "garbage" ->
                     /\ payload_str' = <<Tok("garbage")>>
                     /\ pc' = "request"
                     /\ UNCHANGED result
                [] outcome = "crash" ->
                     /\ Return(Fault)
                     /\ UNCHANGED payload_str
       ELSE /\ payload_str' = Stringify(JObj(payload))
            /\ pc' = "request"
            /\ UNCHANGED result
  /\ UNCHANGED << args, secret, status, endpoint_str, headers, payload, overrides,
                  overrides_live, it, resp, document, response,
                  secret_calls, posts, parses >>

RECURSIVE Text(_)
\* The characters of a JSON text.
Text(toks) ==
  IF toks = <<>> THEN ""
  ELSE (CASE Head(toks).k = "str" -> "\"" \o Head(toks).s \o "\""
          [] Head(toks).k = "num" -> ToString(Head(toks).n)
          [] OTHER -> Head(toks).k) \o Text(Tail(toks))

RECURSIVE Lines(_)
Lines(hs) == IF hs = <<>> THEN "" ELSE "\n" \o Head(hs) \o Lines(Tail(hs))

\* The rendering of the request that dry_run returns.
PostRequest(ep, hs, body) == ep \o Lines(hs) \o "\n" \o Text(body)

DryRun ==
  /\ pc = "request"
  /\ dry_run
  /\ Return(CopyFrom(PostRequest(endpoint_str, headers, payload_str)))
  /\ UNCHANGED << args, secret, status, endpoint_str, headers, payload, overrides,
                  overrides_live, it, payload_str, resp, document, response,
                  secret_calls, posts, parses >>

\* TransportFailed that never sees a failure.
TransportFailed_never(st) == FALSE

\* The test of the transport's status: !status.ok().
TransportFailed(st) == ~st.ok

Post ==
  /\ pc = "request"
  /\ ~dry_run
  /\ posts' = posts + 1
  /\ \E r \in TransportResults :
       /\ status' = r.status
       /\ resp' = r.resp
       /\ IF TransportFailed(r.status)
            THEN Return(CopyFrom(r.status.msg))
            ELSE pc' = "parse" /\ UNCHANGED result
  /\ UNCHANGED << args, secret, endpoint_str, headers, payload, overrides,
                  overrides_live, it, payload_str, document, response,
                  secret_calls, parses >>

ParseResponse ==
  /\ pc = "parse"
  /\ parses' = parses + 1
  /\ document' = Parse(resp)
  /\ IF document'.err
       THEN Return(StringResult(AI_GENERATE_TXT_JSON_PARSE_ERROR))
       ELSE pc' = "extract" /\ UNCHANGED result
  /\ UNCHANGED << args, secret, status, endpoint_str, headers, payload, overrides,
                  overrides_live, it, payload_str, resp, response,
                  secret_calls, posts >>

Get(members, name) == members[FindMember(members, name)].value

Extracted(s) == [fault |-> FALSE, s |-> s]

\* HasMember of a value that is not an object: rapidjson asserts IsObject().
\* With assertions on the call aborts; with them compiled out the lookup
\* reads the value as an object and finds nothing, or crashes.
NotAnObject == { [fault |-> TRUE, s |-> ""], Extracted("") }

\* AiGenerateTextParseOpenAiResponse(document): the outcomes it can have, the
\* string it returns or a fault.  The result is built from GetString(), a
\* const char*.
AiGenerateTextParseOpenAiResponse(doc) ==
  IF ~IsObject(doc) THEN NotAnObject
  ELSE IF \/ ~HasMember(doc.a, OPEN_AI_RESPONSE_FIELD_CHOICES)
          \/ ~IsArray(Get(doc.a, OPEN_AI_RESPONSE_FIELD_CHOICES))
          \/ Len(Get(doc.a, OPEN_AI_RESPONSE_FIELD_CHOICES).a) = 0
    THEN { Extracted("") }
  ELSE LET firstChoice == Get(doc.a, OPEN_AI_RESPONSE_FIELD_CHOICES).a[1]
       IN  IF ~IsObject(firstChoice) THEN NotAnObject
           ELSE IF \/ ~HasMember(firstChoice.a, OPEN_AI_RESPONSE_FIELD_MESSAGE)
                   \/ ~IsObject(Get(firstChoice.a, OPEN_AI_RESPONSE_FIELD_MESSAGE))
             THEN { Extracted("") }
           ELSE LET message == Get(firstChoice.a, OPEN_AI_RESPONSE_FIELD_MESSAGE)
                IN  IF \/ ~HasMember(message.a, OPEN_AI_RESPONSE_FIELD_CONTENT)
                       \/ ~IsString(Get(message.a, OPEN_AI_RESPONSE_FIELD_CONTENT))
                      THEN { Extracted("") }
                      ELSE { Extracted(CStr(Get(message.a,
                                                OPEN_AI_RESPONSE_FIELD_CONTENT).s)) }

Extract ==
  /\ pc = "extract"
  /\ \E r \in AiGenerateTextParseOpenAiResponse(document.v) :
       IF r.fault
         THEN Return(Fault) /\ UNCHANGED response
         ELSE /\ response' = r.s
              /\ IF r.s = ""
                   THEN Return(StringResult(AI_GENERATE_TXT_JSON_PARSE_ERROR))
                   ELSE pc' = "result" /\ UNCHANGED result
  /\ UNCHANGED << args, secret, status, endpoint_str, headers, payload, overrides,
                  overrides_live, it, payload_str, resp, document,
                  secret_calls, posts, parses >>

\* StringVal result(ctx, response.length()): null when the allocation fails.
ReturnResult ==
  /\ pc = "result"
  /\ \E is_null \in BOOLEAN :
       Return(IF is_null THEN NullResult ELSE StringResult(response))
  /\ UNCHANGED << args, secret, status, endpoint_str, headers, payload, overrides,
                  overrides_live, it, payload_str, resp, document, response,
                  secret_calls, posts, parses >>

Next ==
  \/ ValidateEndpoint
  \/ BuildHeaders
  \/ BuildPayload
  \/ ParseOverrides
  \/ MergeNonObject
  \/ MergeMember
  \/ EndOverrides
  \/ Serialize
  \/ DryRun
  \/ Post
  \/ ParseResponse
  \/ Extract
  \/ ReturnResult

Spec == Init /\ [][Next]_vars

\* ------------------------------------------------------------------ claims

RECURSIVE LowerStr(_)
LowerStr(s) == IF Len(s) = 0 THEN "" ELSE ToLowerCh(Ch(s, 1)) \o LowerStr(SubSeq(s, 2, Len(s)))

\* The string begins with https://, case-insensitively.
HasHttpsScheme(s) == Len(s) >= 8 /\ LowerStr(SubSeq(s, 1, 8)) = "https://"

ContainsNoCase(s, frag) ==
  LET ls == LowerStr(s)
      lf == LowerStr(frag)
  IN  \E i \in 1..(Len(s) - Len(frag) + 1) : SubSeq(ls, i, i + Len(frag) - 1) = lf

Allowlisted(s) ==
  ContainsNoCase(s, "api.openai.com") \/ ContainsNoCase(s, "openai.azure.com")

\* The supplied endpoints that do not begin with https://.
NotHttpsEndpoints == { e \in Endpoints : Supplied(e) /\ ~HasHttpsScheme(e.s) }

\* The supplied endpoints that contain an allow-listed fragment.
AllowlistedEndpoints == { e \in Endpoints : Supplied(e) /\ Allowlisted(e.s) }

\* The supplied endpoints that begin with https:// and contain no allow-listed
\* fragment.
UnsupportedEndpoints ==
  { e \in Endpoints : Supplied(e) /\ HasHttpsScheme(e.s) /\ ~Allowlisted(e.s) }

\* The endpoints that are absent or pass both checks.
PassingEndpoints ==
  { e \in Endpoints : ~Supplied(e) \/ (HasHttpsScheme(e.s) /\ Allowlisted(e.s)) }

EndpointPasses == endpoint \in PassingEndpoints

\* The overrides texts that parse to an object with a member named messages.
MessagesParams ==
  { p \in Params :
      /\ Supplied(p)
      /\ ~Parse(p.s).err
      /\ IsObject(Parse(p.s).v)
      /\ "messages" \in { Parse(p.s).v.a[i].name : i \in 1..Len(Parse(p.s).v.a) } }

\* The overrides texts that do not parse.
MalformedParams == { p \in Params : Supplied(p) /\ Parse(p.s).err }

\* The credential reference is absent or was resolved.
CredentialResolved == ~Supplied(api_key_jceks_secret) \/ secret_status.ok

PromptEmpty == ~prompt.ptr \/ prompt.s = ""

NamesOf(members) == { members[i].name : i \in 1..Len(members) }

\* C1: a supplied endpoint that does not begin with https:// (whatever its
\* host) ends the call with the invalid-protocol error, one that begins
\* with https:// and contains no allow-listed fragment ends it with the
\* unsupported-endpoint error; in both cases for every prompt, model,
\* credential reference and overrides, and with no call of the secret store
\* or of the transport.
C1_EndpointRejected ==
  pc # "endpoint" =>
    /\ endpoint \in NotHttpsEndpoints =>
         /\ pc = "done"
         /\ result = StringResult(AI_GENERATE_TXT_INVALID_PROTOCOL_ERROR)
         /\ secret_calls = 0 /\ posts = 0
    /\ endpoint \in UnsupportedEndpoints =>
         /\ pc = "done"
         /\ result = StringResult(AI_GENERATE_TXT_UNSUPPORTED_ENDPOINT_ERROR)
         /\ secret_calls = 0 /\ posts = 0

C1_Witness ==
  /\ pc = "done"
  /\ endpoint \in NotHttpsEndpoints \cap AllowlistedEndpoints
  /\ Supplied(api_key_jceks_secret)
  /\ Supplied(params)
  /\ result = StringResult(AI_GENERATE_TXT_INVALID_PROTOCOL_ERROR)

\* C2: a null or empty prompt, with the endpoint absent or valid and the
\* credential absent or resolved, ends the call with the invalid-prompt error
\* for every model and every overrides string: the overrides are never
\* parsed and the transport is never called.
C2_InvalidPromptFirst ==
  (/\ PromptEmpty
   /\ EndpointPasses
   /\ CredentialResolved
   /\ pc \notin {"endpoint", "headers", "payload"}) =>
    /\ pc = "done"
    /\ result = StringResult(AI_GENERATE_TXT_INVALID_PROMPT_ERROR)
    /\ overrides = NoDocument
    /\ posts = 0

C2_Witness ==
  /\ pc = "done"
  /\ prompt = StringValOf("")
  /\ Supplied(endpoint)
  /\ Supplied(api_key_jceks_secret)
  /\ params \in MessagesParams
  /\ result = StringResult(AI_GENERATE_TXT_INVALID_PROMPT_ERROR)

\* C3: once the overrides parsed to an object with a member named messages,
\* the call ends with the override-forbidden error, wherever the member
\* stands and whatever was merged before it; the transport is never called.
C3_MessagesForbidden ==
  (/\ IsObject(overrides.v)
   /\ "messages" \in NamesOf(overrides.v.a)
   /\ pc # "merge") =>
    /\ pc = "done"
    /\ result = StringResult(AI_GENERATE_TXT_MSG_OVERRIDE_FORBIDDEN_ERROR)
    /\ posts = 0

C3_Witness ==
  /\ pc = "done"
  /\ IsObject(overrides.v)
  /\ Len(overrides.v.a) = 2
  /\ overrides.v.a[1].name = "temperature"
  /\ overrides.v.a[2].name = "messages"
  /\ "temperature" \in NamesOf(payload)
  /\ result = StringResult(AI_GENERATE_TXT_MSG_OVERRIDE_FORBIDDEN_ERROR)

\* Every step of the request builder succeeded.
BuilderSucceeded ==
  /\ EndpointPasses
  /\ CredentialResolved
  /\ Len(headers) = 2
  /\ ~PromptEmpty
  /\ params \notin MalformedParams \cup MessagesParams
  /\ payload_str # <<>>

\* C4: the POST is issued at most once, only when dry_run is false and after
\* every builder step succeeded; the response is parsed at most once and
\* only after the transport returned success; on a transport failure the
\* call ends with the transport error's description and parses nothing.
C4_PhaseOrder ==
  /\ posts \in {0, 1}
  /\ parses \in {0, 1}
  /\ posts = 1 => (~dry_run /\ BuilderSucceeded)
  /\ parses = 1 => (posts = 1 /\ status.ok)
  /\ (posts = 1 /\ ~status.ok) =>
       /\ pc = "done"
       /\ result = StringResult(status.msg)
       /\ parses = 0
       /\ document = NoDocument

C4_Witness ==
  /\ pc = "done"
  /\ posts = 1
  /\ ~status.ok
  /\ parses = 0
  /\ Supplied(params)
  /\ result = StringResult("Remote error: HTTP 500")

\* The call got past credential resolution.
PastCredentials == pc \notin {"endpoint", "headers"} /\ EndpointPasses

\* C8 as stated: past credential resolution the Authorization header carries
\* the default credential ai_api_key_, whether no reference was supplied or
\* a supplied one was resolved; a failed resolution ends the call with the
\* failure's message and no Authorization header.
C8_DefaultCredentialAlways ==
  PastCredentials =>
    IF CredentialResolved
      THEN /\ Len(headers) = 2
           /\ headers[2] = "Authorization: Bearer " \o ai_api_key_
      ELSE /\ pc = "done"
           /\ result = StringResult(secret_status.msg)
           /\ Len(headers) = 1

\* C8 amended: past credential resolution the Authorization header carries
\* the key the secret store returned when a reference was supplied and
\* resolved, and the default credential ai_api_key_ when none was supplied; a
\* failed resolution ends the call with the failure's message, no
\* Authorization header and no POST.
C8_AuthorizationHeader ==
  PastCredentials =>
    IF CredentialResolved
      THEN /\ Len(headers) = 2
           /\ headers[1] = OPEN_AI_REQUEST_FIELD_CONTENT_TYPE_HEADER
           /\ headers[2] =
                IF Supplied(api_key_jceks_secret)
                  THEN "Authorization: Bearer " \o api_key
                  ELSE "Authorization: Bearer " \o ai_api_key_
           /\ Supplied(api_key_jceks_secret) =>
                \E r \in SecretResults : r.status.ok /\ r.api_key = api_key
      ELSE /\ pc = "done"
           /\ result = StringResult(secret_status.msg)
           /\ Len(headers) = 1
           /\ posts = 0

C8_Witness ==
  /\ pc = "done"
  /\ dry_run
  /\ Supplied(api_key_jceks_secret)
  /\ secret_status.ok
  /\ Len(headers) = 2
  /\ headers[2] = "Authorization: Bearer sk-from-keystore"
  /\ headers[2] # "Authorization: Bearer " \o ai_api_key_
  /\ result.kind = "string"

\* The first member of an object with the given name, JNull when the value
\* is no object or has no such member.
Lookup(v, name) ==
  IF v.t = "obj" /\ name \in NamesOf(v.a)
    THEN v.a[CHOOSE i \in 1..Len(v.a) :
               v.a[i].name = name /\ \A j \in 1..(i - 1) : v.a[j].name # name].value
    ELSE JNull

\* choices[0].message.content of a response.
ContentOf0(v) ==
  LET choices == Lookup(v, "choices")
  IN  IF choices.t = "arr" /\ Len(choices.a) > 0
        THEN Lookup(Lookup(choices.a[1], "message"), "content")
        ELSE JNull

\* The response has the whole path, with the types the extractor expects.
ContentPathOK(v) ==
  LET choices == Lookup(v, "choices")
  IN  /\ v.t = "obj"
      /\ choices.t = "arr"
      /\ Len(choices.a) > 0
      /\ choices.a[1].t = "obj"
      /\ Lookup(choices.a[1], "message").t = "obj"
      /\ "content" \in NamesOf(Lookup(choices.a[1], "message").a)
      /\ ContentOf0(v).t = "str"
      /\ ContentOf0(v).s # ""

\* C5: for a response body that parses as JSON, the call ends with the string
\* value of choices[0].message.content when the whole path is there with the
\* expected types and the content is not empty (or with null when the result
\* buffer cannot be allocated), and with the JSON-parse error in every other
\* case.
C5_ExtractorOutcome ==
  (pc = "done" /\ parses = 1 /\ ~document.err) =>
    IF ContentPathOK(document.v)
      THEN result \in {StringResult(ContentOf0(document.v).s), NullResult}
      ELSE result = StringResult(AI_GENERATE_TXT_JSON_PARSE_ERROR)

\* C6: the call always ends by returning a string, never with a fault; the
\* only other return is null, when the buffer of the extracted text cannot
\* be allocated.
C6_AlwaysReturnsString ==
  pc = "done" =>
    \/ result.kind = "string"
    \/ /\ result.kind = "null"
       /\ parses = 1
       /\ response # ""

\* C7: after the merge has completed, no two members of the payload have the
\* same name.
C7_NoDuplicateMembers ==
  (pc = "stringify" /\ IsObject(overrides.v)) =>
    \A i, j \in 1..Len(payload) : payload[i].name = payload[j].name => i = j

\* C9: the payload that is serialized has one member model and one member
\* messages, an array of exactly the object {role: "user", content: prompt}.
C9_MessagesEngineDerived ==
  pc = "stringify" =>
    /\ Cardinality({ i \in 1..Len(payload) : payload[i].name = "model" }) = 1
    /\ Cardinality({ i \in 1..Len(payload) : payload[i].name = "messages" }) = 1
    /\ Lookup(JObj(payload), "messages") =
         JArr(<< JObj(<< Member("role", JStr("user")),
                         Member("content", JStr(prompt.s)) >>) >>)

\* C10: when the payload is serialized, the storage behind every name and
\* value moved into it from the overrides document is still live.
C10_OverridesLiveAtSerialize ==
  pc = "stringify" =>
    \A i \in 1..Len(payload) :
      (payload[i].name_owner = "overrides" \/ payload[i].value_owner = "overrides")
        => overrides_live

====
